---- MODULE Spec2Model ----
(***************************************************************************)
(* Model of python/paddle/quantization/qat.py: the QAT rewriter.           *)
(*                                                                         *)
(* Layers and configurations are objects on a heap, so that identity,      *)
(* aliasing and deep copies are explicit.  A layer is a record             *)
(*   [type, _sub_layers, _layer]                                           *)
(* where _sub_layers maps child names (here 1..k, in the host's child      *)
(* order) to layer references and _layer is the layer a QAT layer or an    *)
(* observe wrapper was built from (None for a plain layer).                *)
(* The recursion of the two passes is an explicit stack of frames          *)
(*   [model, i, replaced]                                                  *)
(* (the node being visited, the position of named_children(), the staged   *)
(* dict).  QuantConfig (config.py) is a collaborator: its queries are      *)
(* modelled as tables keyed by layer type.                                 *)
(***************************************************************************)
EXTENDS Integers, Sequences, FiniteSets, TLC

MaxNodes == 4

MaxCalls == 2

MaxMutations == 1

None == 0

LayerTypes == {"Conv2D", "Sequential"}

QuantedType == "QuantedConv2D"

WrapperType == "ObserveWrapper"

Rewriters == {1, 2}

NoRewriter == [_config |-> None]

NotRaised == [step |-> "none", heap |-> <<>>]

UserConfig == 1

UserModel == 1

VARIABLES
  heap,      \* layer objects: Seq of [type, _sub_layers, _layer]
  cfgs,      \* configuration objects: Seq of config records
  qat,       \* rewriter objects: [_config |-> reference into cfgs], or None
  pc,        \* position of the running quantize call
  self,      \* the rewriter quantize runs on
  model,     \* quantize's argument
  inplace,   \* quantize's argument
  _model,    \* quantize's local: the working model
  stack,     \* frames of the running pass, innermost first
  result,    \* what quantize returned (None: nothing)
  error,     \* the error quantize ended in ("none": no error)
  entry,     \* history: the heap when quantize was entered
  work,      \* history: the heap after line 66 (the working model before any pass)
  recursed,  \* history: <<pass, layer>> for every recursive call of a pass
  passed,    \* history: <<method, layer>> for every call of _get_qat_layer and _get_observe_wrapper
  raisedAt,  \* history: the collaborator step that failed, with the heap then
  owned,     \* history: per rewriter, the caller's configuration as it was at construction
  ncalls,    \* quantize calls started so far
  nmut       \* caller mutations of its configuration so far

vars == <<heap, cfgs, qat, pc, self, model, inplace, _model, stack, result,
          error, entry, work, recursed, passed, raisedAt, owned, ncalls, nmut>>

Range(s) == {s[k] : k \in DOMAIN s}

----------------------------------------------------------------------------
(* Host layer runtime: reachability and copy.deepcopy of a layer tree.     *)

RECURSIVE Reach(_, _)
Reach(h, S) ==
  LET N == S \cup UNION {Range(h[n]._sub_layers) : n \in S}
  IN IF N = S THEN S ELSE Reach(h, N)

\* The layers of the tree rooted at root.
Tree(h, root) == Reach(h, {root})

\* copy.deepcopy(model): every layer of the tree gets a fresh object, and the
\* references inside the copies point at copies.
CopyRef(h, R, n) == IF n \in R THEN Len(h) + Cardinality({m \in R : m <= n}) ELSE n

DeepCopyLayers(h, root) ==
  LET R == Tree(h, root)
      old(k) == CHOOSE n \in R : CopyRef(h, R, n) = k
  IN [heap |-> [k \in 1..(Len(h) + Cardinality(R)) |->
                  IF k <= Len(h) THEN h[k]
                  ELSE [type |-> h[old(k)].type,
                        _sub_layers |-> [j \in DOMAIN h[old(k)]._sub_layers |->
                                           CopyRef(h, R, h[old(k)]._sub_layers[j])],
                        _layer |-> CopyRef(h, R, h[old(k)]._layer)]],
      root |-> CopyRef(h, R, root)]

----------------------------------------------------------------------------
(* The QuantConfig collaborator.                                           *)

Configs ==
  [quantifiable : SUBSET LayerTypes,
   qat_layer_mappings : SUBSET LayerTypes,
   observe : SUBSET (LayerTypes \cup {QuantedType}),
   _model : {None}]

_is_quantifiable(config, layer) == layer.type \in config.quantifiable

_in_qat_layer_mappings(config, layer) == layer.type \in config.qat_layer_mappings

_need_observe(config, layer) == layer.type \in config.observe

_get_qat_layer(child) ==
  [type |-> QuantedType, _sub_layers |-> <<>>, _layer |-> child]

_get_observe_wrapper(child) ==
  [type |-> WrapperType, _sub_layers |-> <<child>>, _layer |-> child]

_specify(config, m) == [config EXCEPT !._model = m]

\* The caller's edits of a configuration: one layer type enters or leaves one table.
Toggle(S, t) == IF t \in S THEN S \ {t} ELSE S \cup {t}

Mutations(config) ==
  {[config EXCEPT !.quantifiable = Toggle(@, t)] : t \in LayerTypes}
  \cup {[config EXCEPT !.qat_layer_mappings = Toggle(@, t)] : t \in LayerTypes}
  \cup {[config EXCEPT !.observe = Toggle(@, t)] : t \in LayerTypes \cup {QuantedType}}

\* The tables a configuration's decisions are read from.
Decisions(config) ==
  [quantifiable |-> config.quantifiable,
   qat_layer_mappings |-> config.qat_layer_mappings,
   observe |-> config.observe]

----------------------------------------------------------------------------
(* QAT.__init__                                                            *)

\* Mutant: the rewriter keeps the caller's configuration object itself.
AliasConfig(cs, config) == [cfgs |-> cs, ref |-> config]

\* self._config = copy.deepcopy(config)
DeepCopyConfig(cs, config) == [cfgs |-> Append(cs, cs[config]), ref |-> Len(cs) + 1]

----------------------------------------------------------------------------
(* QAT.quantize and the two passes, as pure steps.                         *)

\* Mutant: the copy is forgotten, the caller's model is the working model.
AlwaysInplace(h, m, ip) == [heap |-> h, root |-> m]

\* _model = model if inplace else copy.deepcopy(model)
WorkingModel(h, m, ip) ==
  IF ip THEN [heap |-> h, root |-> m] ELSE DeepCopyLayers(h, m)

\* Mutant: the observer pass runs before the replacement pass.
ObserveFirst(p) ==
  CASE p = "entry" -> "specify"
    [] p = "specify" -> "observe"
    [] p = "observe" -> "convert"
    [] p = "convert" -> "return"
    [] OTHER -> "done"

\* The statements of quantize in order: _specify, _convert_to_quant_layers,
\* _insert_activation_observers, return.
PhaseAfter(p) ==
  CASE p = "entry" -> "specify"
    [] p = "specify" -> "convert"
    [] p = "convert" -> "observe"
    [] p = "observe" -> "return"
    [] OTHER -> "done"

\* Mutant: the pass descends into a child that is not quantifiable.
RecurseIneligible(config, child) ==
  [replace |-> _is_quantifiable(config, child) /\ _in_qat_layer_mappings(config, child),
   recurse |-> ~(_is_quantifiable(config, child) /\ _in_qat_layer_mappings(config, child))]

\* Mutant: the test of _is_quantifiable is dropped for a child of a mapped type.
ReplaceIneligible(config, child) ==
  [replace |-> _in_qat_layer_mappings(config, child),
   recurse |-> _is_quantifiable(config, child) /\ ~_in_qat_layer_mappings(config, child)]

\* The branch _convert_to_quant_layers takes for one child.
ConvertBranch(config, child) ==
  [replace |-> _is_quantifiable(config, child) /\ _in_qat_layer_mappings(config, child),
   recurse |-> _is_quantifiable(config, child) /\ ~_in_qat_layer_mappings(config, child)]

\* Mutant: an observed child is wrapped and descended into as well.
WrapAndRecurse(config, child) ==
  [replace |-> _need_observe(config, child), recurse |-> TRUE]

\* The branch _insert_activation_observers takes for one child.
ObserveBranch(config, child) ==
  [replace |-> _need_observe(config, child),
   recurse |-> ~_need_observe(config, child)]

\* Mutant: the replacement is installed in the node at once, during the iteration.
InstallNow(replaced, sub, name, value) ==
  [replaced |-> replaced, sub |-> [sub EXCEPT ![name] = value]]

\* replaced[name] = value: the pair is staged, the node's children are not touched.
Stage(replaced, sub, name, value) ==
  [replaced |-> (name :> value) @@ replaced, sub |-> sub]

\* Mutant: the staged replacements are dropped.
InstallNothing(sub, replaced) == sub

\* for key, value in replaced.items(): model._sub_layers[key] = value
Install(sub, replaced) ==
  [k \in DOMAIN sub |-> IF k \in DOMAIN replaced THEN replaced[k] ELSE sub[k]]

\* Mutant: quantize catches the error and returns the working model.
Swallow(step) == [pc |-> "return", error |-> "none"]

\* quantize and the passes hold no try/except: an error of a collaborator ends
\* the call.
Propagate(step) == [pc |-> "raised", error |-> step]

Frame(m) == [model |-> m, i |-> 1, replaced |-> <<>>]

\* The call of a pass on the working model, or nothing for return.
EnterPhase(p) == IF p \in {"convert", "observe"} THEN <<Frame(_model)>> ELSE <<>>

\* self._config
Config == cfgs[qat[self]._config]

Running == pc \in {"convert", "observe"} /\ stack # <<>>

Top == Head(stack)

\* named_children() still has a child to yield for the innermost frame.
HasChild == Running /\ Top.i <= Len(heap[Top.model]._sub_layers)

Child == heap[Top.model]._sub_layers[Top.i]

Branch ==
  IF pc = "convert" THEN ConvertBranch(Config, heap[Child])
  ELSE ObserveBranch(Config, heap[Child])

Method == IF pc = "convert" THEN "_get_qat_layer" ELSE "_get_observe_wrapper"

Replacement ==
  IF pc = "convert" THEN _get_qat_layer(Child) ELSE _get_observe_wrapper(Child)

----------------------------------------------------------------------------
(* Actions.                                                                *)

\* quantize, line 66.
QuantizeEntry ==
  /\ pc = "entry"
  /\ LET w == WorkingModel(heap, model, inplace)
     IN /\ heap' = w.heap
        /\ _model' = w.root
        /\ work' = w.heap
  /\ pc' = PhaseAfter(pc)
  /\ UNCHANGED <<cfgs, qat, self, model, inplace, stack, result, error, entry,
                 recursed, passed, raisedAt, owned, ncalls, nmut>>

\* quantize, line 67, and the call of the first pass.
Specify ==
  /\ pc = "specify"
  /\ cfgs' = [cfgs EXCEPT ![qat[self]._config] = _specify(@, _model)]
  /\ pc' = PhaseAfter(pc)
  /\ stack' = EnterPhase(pc')
  /\ UNCHANGED <<heap, qat, self, model, inplace, _model, result, error, entry,
                 work, recursed, passed, raisedAt, owned, ncalls, nmut>>

\* One iteration of the loop over named_children(), in either pass.
VisitChild ==
  /\ HasChild
  /\ LET b == Branch
         new == Len(heap) + 1
         h1 == IF b.replace THEN Append(heap, Replacement) ELSE heap
         s == IF b.replace
              THEN Stage(Top.replaced, h1[Top.model]._sub_layers, Top.i, new)
              ELSE [replaced |-> Top.replaced, sub |-> h1[Top.model]._sub_layers]
         here == [Top EXCEPT !.i = @ + 1, !.replaced = s.replaced]
     IN /\ heap' = [h1 EXCEPT ![Top.model]._sub_layers = s.sub]
        /\ stack' = IF b.recurse
                    THEN <<Frame(Child), here>> \o Tail(stack)
                    ELSE <<here>> \o Tail(stack)
        /\ recursed' = IF b.recurse THEN recursed \cup {<<pc, Child>>} ELSE recursed
        /\ passed' = IF b.replace THEN passed \cup {<<Method, Child>>} ELSE passed
  /\ UNCHANGED <<cfgs, qat, pc, self, model, inplace, _model, result, error,
                 entry, work, raisedAt, owned, ncalls, nmut>>

\* The loop over replaced.items() and the return of the pass; the outermost
\* return goes on to quantize's next statement.
InstallReplaced ==
  /\ Running
  /\ ~HasChild
  /\ heap' = [heap EXCEPT ![Top.model]._sub_layers = Install(@, Top.replaced)]
  /\ IF Tail(stack) # <<>>
     THEN /\ stack' = Tail(stack)
          /\ pc' = pc
     ELSE /\ pc' = PhaseAfter(pc)
          /\ stack' = EnterPhase(pc')
  /\ UNCHANGED <<cfgs, qat, self, model, inplace, _model, result, error, entry,
                 work, recursed, passed, raisedAt, owned, ncalls, nmut>>

\* quantize, line 70.
Return ==
  /\ pc = "return"
  /\ result' = _model
  /\ pc' = PhaseAfter(pc)
  /\ UNCHANGED <<heap, cfgs, qat, self, model, inplace, _model, stack, error,
                 entry, work, recursed, passed, raisedAt, owned, ncalls, nmut>>

\* A collaborator raises: the frames unwind (their staged dicts are dropped).
Fail(step) ==
  /\ LET o == Propagate(step)
     IN /\ pc' = o.pc
        /\ error' = o.error
  /\ stack' = <<>>
  /\ raisedAt' = [step |-> step, heap |-> heap]
  /\ passed' = IF step = Method /\ HasChild THEN passed \cup {<<step, Child>>} ELSE passed
  /\ UNCHANGED <<heap, cfgs, qat, self, model, inplace, _model, result, entry,
                 work, recursed, owned, ncalls, nmut>>

Raise ==
  \/ pc = "entry" /\ ~inplace /\ Fail("deepcopy")
  \/ pc = "specify" /\ Fail("_specify")
  \/ pc = "convert" /\ HasChild /\ Fail("_is_quantifiable")
  \/ pc = "convert" /\ HasChild /\ _is_quantifiable(Config, heap[Child])
       /\ Fail("qat_layer_mappings")
  \/ pc = "convert" /\ HasChild /\ Branch.replace /\ Fail("_get_qat_layer")
  \/ pc = "observe" /\ HasChild /\ Fail("_need_observe")
  \/ pc = "observe" /\ HasChild /\ Branch.replace /\ Fail("_get_observe_wrapper")

\* QAT.__init__(config), by the caller on its configuration.
Construct(r) ==
  /\ pc = "idle"
  /\ qat[r] = NoRewriter
  /\ \A q \in Rewriters : q < r => qat[q] # NoRewriter
  /\ LET o == DeepCopyConfig(cfgs, UserConfig)
     IN /\ cfgs' = o.cfgs
        /\ qat' = [qat EXCEPT ![r] = [_config |-> o.ref]]
  /\ owned' = [owned EXCEPT ![r] = cfgs[UserConfig]]
  /\ UNCHANGED <<heap, pc, self, model, inplace, _model, stack, result, error,
                 entry, work, recursed, passed, raisedAt, ncalls, nmut>>

\* The caller changes its own configuration object.
MutateConfig ==
  /\ pc = "idle"
  /\ nmut < MaxMutations
  /\ \E c \in Mutations(cfgs[UserConfig]) :
       cfgs' = [cfgs EXCEPT ![UserConfig] = c]
  /\ nmut' = nmut + 1
  /\ UNCHANGED <<heap, qat, pc, self, model, inplace, _model, stack, result,
                 error, entry, work, recursed, passed, raisedAt, owned, ncalls>>

\* The caller calls r.quantize(model, inplace) on its model.
Call(r, ip) ==
  /\ pc = "idle"
  /\ qat[r] # NoRewriter
  /\ ncalls < MaxCalls
  /\ pc' = "entry"
  /\ self' = r
  /\ inplace' = ip
  /\ entry' = heap
  /\ work' = heap
  /\ ncalls' = ncalls + 1
  /\ UNCHANGED <<heap, cfgs, qat, model, _model, stack, result, error, recursed, passed,
                 raisedAt, owned, nmut>>

\* The layers left once the caller lets go of everything but its own model
\* (references are counted: the objects allocated last and no longer reachable go).
Collected(h) ==
  LET R == Tree(h, UserModel)
  IN SubSeq(h, 1, CHOOSE k \in R : \A n \in R : n <= k)

\* The call is over for the caller: it has used the returned model or the error
\* and keeps only its own model.
Finish ==
  /\ pc \in {"done", "raised"}
  /\ heap' = Collected(heap)
  /\ pc' = "idle"
  /\ self' = 1
  /\ inplace' = FALSE
  /\ _model' = None
  /\ stack' = <<>>
  /\ result' = None
  /\ error' = "none"
  /\ entry' = heap'
  /\ work' = heap'
  /\ recursed' = {}
  /\ passed' = {}
  /\ raisedAt' = NotRaised
  /\ UNCHANGED <<cfgs, qat, model, owned, ncalls, nmut>>

Quantize == QuantizeEntry \/ Specify \/ VisitChild \/ InstallReplaced \/ Return

----------------------------------------------------------------------------
(* Initial states.                                                         *)

\* The caller's model: a tree of n layers, layer 1 the root, the children of
\* a layer in ascending order.
Parents(n) == {p \in [2..n -> 1..(n - 1)] : \A k \in 2..n : p[k] < k}

ChildrenOf(n, p, m) ==
  LET C == {k \in 2..n : p[k] = m}
      nth(j) == CHOOSE k \in C : Cardinality({x \in C : x <= k}) = j
  IN [j \in 1..Cardinality(C) |-> nth(j)]

ModelHeap(n, p, t) ==
  [m \in 1..n |-> [type |-> t[m], _sub_layers |-> ChildrenOf(n, p, m), _layer |-> None]]

\* The root's type is never read by the passes: it is fixed.
Types(n) == {t \in [1..n -> LayerTypes] : t[1] = "Sequential"}

Models(N) ==
  UNION {{ModelHeap(n, p, t) : p \in Parents(n), t \in Types(n)} : n \in 1..N}

\* A rewriter built from the caller's configuration, at the entry of quantize
\* on the caller's model.
Init ==
  /\ heap \in Models(MaxNodes)
  /\ \E c \in Configs :
       LET o == DeepCopyConfig(<<c>>, UserConfig)
       IN /\ cfgs = o.cfgs
          /\ qat = [r \in Rewriters |-> IF r = 1 THEN [_config |-> o.ref] ELSE NoRewriter]
          /\ owned = [r \in Rewriters |-> c]
  /\ pc = "entry"
  /\ self = 1
  /\ model = UserModel
  /\ inplace \in BOOLEAN
  /\ _model = None
  /\ stack = <<>>
  /\ result = None
  /\ error = "none"
  /\ entry = heap
  /\ work = heap
  /\ recursed = {}
  /\ passed = {}
  /\ raisedAt = NotRaised
  /\ ncalls = 1
  /\ nmut = 0

Next == Quantize \/ Raise

Spec == Init /\ [][Next]_vars

\* The model of the specification's scenario: {convA, normB{child}}.
ScenarioModel ==
  ModelHeap(4, [k \in 2..4 |-> IF k = 4 THEN 3 ELSE 1],
            [k \in 1..4 |-> IF k \in {1, 3} THEN "Sequential" ELSE "Conv2D"])

\* The configurations a caller starts from in the lifecycle runs (its edits
\* reach the others).
LifecycleConfigs ==
  {c \in Configs : /\ c.quantifiable = LayerTypes
                    /\ c.qat_layer_mappings = {"Conv2D"}
                    /\ c.observe \subseteq {QuantedType}}

\* A caller with a configuration and a model, before any rewriter exists.
InitLifecycle ==
  /\ heap = ScenarioModel
  /\ \E c \in LifecycleConfigs :
       /\ cfgs = <<c>>
       /\ owned = [r \in Rewriters |-> c]
  /\ qat = [r \in Rewriters |-> NoRewriter]
  /\ pc = "idle"
  /\ self = 1
  /\ model = UserModel
  /\ inplace = FALSE
  /\ _model = None
  /\ stack = <<>>
  /\ result = None
  /\ error = "none"
  /\ entry = heap
  /\ work = heap
  /\ recursed = {}
  /\ passed = {}
  /\ raisedAt = NotRaised
  /\ ncalls = 0
  /\ nmut = 0

NextLifecycle ==
  \/ Quantize
  \/ Raise
  \/ \E r \in Rewriters : Construct(r)
  \/ MutateConfig
  \/ \E r \in Rewriters, ip \in BOOLEAN : Call(r, ip)
  \/ Finish

SpecLifecycle == InitLifecycle /\ [][NextLifecycle]_vars

----------------------------------------------------------------------------
(* Properties.                                                             *)

\* The tree rooted at n as a value: types and child names, identities left out.
RECURSIVE Shape(_, _)
Shape(h, n) ==
  [type |-> h[n].type,
   children |-> [k \in DOMAIN h[n]._sub_layers |-> Shape(h, h[n]._sub_layers[k])]]

\* The caller's model as it was when quantize was entered.
Original == Tree(entry, model)

\* The working model as it was before the passes, without its root.
Inner == Tree(work, _model) \ {_model}

\* The proper ancestors of n below the root of the working model.
AncestorsBelowRoot(n) == {a \in Inner : a # n /\ n \in Tree(work, a)}

\* Layers allocated by the passes of the running call.
Fresh(t) == {q \in DOMAIN heap : q \notin DOMAIN work /\ heap[q].type = t}

OriginalUntouched == \A n \in Original : heap[n] = entry[n]

\* C1: after quantize(model, inplace=False) the caller's model is the same root
\* with every node mapping each child name to the same child as before, and the
\* returned model is another object, not one of the caller's layers.
C1_OriginalUnchanged ==
  (pc \in {"specify", "convert", "observe", "return", "done"} /\ ~inplace) =>
    /\ model = UserModel
    /\ OriginalUntouched
    /\ _model \notin DOMAIN entry
    /\ pc = "done" => result = _model

C1_Witness ==
  /\ pc = "done"
  /\ ~inplace
  /\ Fresh(QuantedType) # {}
  /\ Fresh(WrapperType) # {}
  /\ Shape(heap, result) # Shape(entry, model)

NoneEligible == \A n \in Original : ~_is_quantifiable(Config, entry[n])

NoneObserved == \A n \in Original : ~_need_observe(Config, entry[n])

\* Every node maps the same child names to the same children (inplace) or to
\* their copies (otherwise).
Identical ==
  /\ Shape(heap, result) = Shape(entry, model)
  /\ inplace => result = model /\ OriginalUntouched

\* C2 as stated: when no node is quantization-eligible, quantize returns a tree
\* structurally identical to its input.
C2_Original == (pc = "done" /\ NoneEligible) => Identical

\* C2, amended: when no node is quantization-eligible the replacement pass
\* replaces nothing, and when in addition need_observe holds for no node the
\* returned tree is structurally identical to the input (the same object when
\* inplace).
C2_NoEligibleNoObserved ==
  (pc \in {"convert", "observe", "return", "done"} /\ NoneEligible) =>
    /\ Fresh(QuantedType) = {}
    /\ (pc = "done" /\ NoneObserved) => Identical

C2_Witness ==
  /\ pc = "done"
  /\ NoneEligible
  /\ NoneObserved
  /\ Cardinality(Original) >= 3
  /\ \E n \in Original \ {model} : _in_qat_layer_mappings(Config, entry[n])

\* A child slot of the working model: <<parent, name>>.
Slots == {<<p, k>> \in Tree(work, _model) \X (1..MaxNodes) : k \in DOMAIN work[p]._sub_layers}

Before(s) == work[s[1]]._sub_layers[s[2]]

Now(s) == heap[s[1]]._sub_layers[s[2]]

\* What a slot holds, looked at through an observe wrapper the call installed.
Observed(n) == IF n \in Fresh(WrapperType) THEN heap[n]._layer ELSE n

EligibleMapped(n) ==
  _is_quantifiable(Config, work[n]) /\ _in_qat_layer_mappings(Config, work[n])

Leaves == {n \in Inner : work[n]._sub_layers = <<>>}

\* C3 as stated: with exactly one eligible leaf of a mapped type, that leaf's
\* name resolves to the node get_qat_layer produced for it and every other name
\* resolves to the same child as before.
C3_Original ==
  pc = "done" =>
    \A l \in Leaves :
      {n \in Leaves : EligibleMapped(n)} = {l} =>
        \A s \in Slots :
          IF Before(s) = l
          THEN Now(s) \in Fresh(QuantedType) /\ heap[Now(s)] = _get_qat_layer(l)
          ELSE Now(s) = Before(s)

\* The replacement pass reaches n: every proper ancestor below the root is
\* quantifiable and not of a mapped type.
ReachedByConvert(n) ==
  \A a \in AncestorsBelowRoot(n) :
    _is_quantifiable(Config, work[a]) /\ ~_in_qat_layer_mappings(Config, work[a])

\* C3, amended: when one leaf is the model's only eligible node of a mapped type
\* and every proper ancestor of it below the root is eligible, then after
\* quantize that leaf's name resolves to the node get_qat_layer produced for it
\* and every other name to the same child as before, in both cases up to an
\* observe wrapper the second pass put around a child for which need_observe
\* holds.
C3_OnlyTheLeafReplaced ==
  pc = "done" =>
    \A l \in Leaves :
      ({n \in Inner : EligibleMapped(n)} = {l} /\ ReachedByConvert(l)) =>
        \A s \in Slots :
          /\ IF Before(s) = l
             THEN /\ Observed(Now(s)) \in Fresh(QuantedType)
                  /\ heap[Observed(Now(s))] = _get_qat_layer(l)
             ELSE Observed(Now(s)) = Before(s)
          /\ Now(s) # Observed(Now(s)) => _need_observe(Config, heap[Observed(Now(s))])
          /\ Now(s) = Observed(Now(s)) =>
               \/ ~_need_observe(Config, heap[Now(s)])
               \/ \E a \in AncestorsBelowRoot(Before(s)) : _need_observe(Config, work[a])

C3_Witness ==
  /\ pc = "done"
  /\ \E l \in Leaves :
       /\ {n \in Inner : EligibleMapped(n)} = {l}
       /\ ReachedByConvert(l)
       /\ AncestorsBelowRoot(l) # {}
       /\ Cardinality(Slots) >= 3
       /\ \E s \in Slots : Before(s) = l /\ Now(s) \in Fresh(QuantedType)

\* C4: the replacement pass never passes to get_qat_layer, and so never
\* replaces, a node that has a proper ancestor below the root for which
\* is_quantifiable is false.
C4_IneligibleSubtreeSkipped ==
  /\ \A c \in passed :
       c[1] = "_get_qat_layer" =>
         /\ c[2] \in Inner
         /\ \A a \in AncestorsBelowRoot(c[2]) : _is_quantifiable(Config, work[a])
  /\ \A q \in Fresh(QuantedType) : <<"_get_qat_layer", heap[q]._layer>> \in passed
  /\ \A r \in recursed :
       r[1] = "convert" =>
         \A a \in AncestorsBelowRoot(r[2]) \cup {r[2]} : _is_quantifiable(Config, work[a])

C4_Witness ==
  /\ pc = "done"
  /\ Fresh(QuantedType) # {}
  /\ \E n \in Inner :
       /\ EligibleMapped(n)
       /\ \E a \in AncestorsBelowRoot(n) : ~_is_quantifiable(Config, work[a])
       /\ \A s \in Slots : Before(s) = n => Now(s) = n

\* The QAT layer the replacement pass built from the child a slot held.
ReplacementOf(s) == {q \in Fresh(QuantedType) : heap[q]._layer = Before(s)}

WrapperOf(w, q) == w \in Fresh(WrapperType) /\ heap[w] = _get_observe_wrapper(q)

\* C5 as stated: if a child was replaced in the first pass and need_observe
\* holds for the replacement, the node under that name after quantize is
\* get_observe_wrapper of the replacement.
C5_Original ==
  pc = "done" =>
    \A s \in Slots : \A q \in ReplacementOf(s) :
      _need_observe(Config, heap[q]) => WrapperOf(Now(s), q)

\* C5, amended: the observer pass runs on the tree the replacement pass left. A
\* replaced child is never passed to get_observe_wrapper; and if a child was
\* replaced, need_observe holds for the replacement and for no proper ancestor
\* of it below the root, then the node under that name after quantize is
\* get_observe_wrapper of the replacement.
C5_ObserverSeesReplacements ==
  /\ \A c \in passed :
       c[1] = "_get_observe_wrapper" =>
         /\ pc \in {"observe", "return", "done", "raised"}
         /\ \A q \in Fresh(QuantedType) : heap[q]._layer # c[2]
  /\ pc = "done" =>
       \A s \in Slots : \A q \in ReplacementOf(s) :
         /\ Observed(Now(s)) = q
         /\ (/\ _need_observe(Config, heap[q])
             /\ \A a \in AncestorsBelowRoot(Before(s)) : ~_need_observe(Config, work[a]))
            => WrapperOf(Now(s), q)

C5_Witness ==
  /\ pc = "done"
  /\ \E s \in Slots : \E q \in ReplacementOf(s) :
       /\ WrapperOf(Now(s), q)
       /\ AncestorsBelowRoot(Before(s)) # {}
       /\ _need_observe(Config, work[Before(s)])

\* Every frame still iterating, or waiting for a recursive call to return, has
\* staged only names it has passed, and what it staged is not installed: the
\* name still resolves to the child the replacement was built from.
StagedNotInstalled ==
  \A f \in 1..Len(stack) :
    \A k \in DOMAIN stack[f].replaced :
      /\ k < stack[f].i
      /\ heap[stack[f].model]._sub_layers[k] # stack[f].replaced[k]
      /\ heap[stack[f].replaced[k]]._layer = heap[stack[f].model]._sub_layers[k]

\* C8: a node's name-to-child mapping changes only in the install step of the
\* frame visiting that node, after the iteration over all its children; that
\* step rebinds every staged name to its replacement and no other name. While
\* the node's children are iterated, and during the recursion into them, the
\* mapping is unchanged and the staged replacements are not installed.
C8_InstallAfterIteration ==
  /\ []StagedNotInstalled
  /\ [][\A n \in DOMAIN heap :
          heap'[n]._sub_layers # heap[n]._sub_layers =>
            /\ Running
            /\ Top.model = n
            /\ ~HasChild
            /\ Top.replaced # <<>>
            /\ DOMAIN heap'[n]._sub_layers = DOMAIN heap[n]._sub_layers
            /\ \A k \in DOMAIN heap[n]._sub_layers :
                 heap'[n]._sub_layers[k] =
                   IF k \in DOMAIN Top.replaced THEN Top.replaced[k]
                   ELSE heap[n]._sub_layers[k]]_vars

C8_Witness ==
  /\ pc = "observe"
  /\ Len(stack) >= 2
  /\ Top.replaced # <<>>
  /\ stack[2].replaced # <<>>
  /\ Fresh(QuantedType) # {}

ObservePassed == {c[2] : c \in {x \in passed : x[1] = "_get_observe_wrapper"}}

ObserveRecursed == {r[2] : r \in {x \in recursed : x[1] = "observe"}}

\* C9: in the observer pass a child for which need_observe holds is wrapped and
\* never recursed into, a child for which it does not hold is recursed into and
\* never wrapped; no node strictly below a wrapped node is passed to
\* get_observe_wrapper, so the wrappers the pass installs never nest.
C9_OneWrapperPerPath ==
  /\ \A c \in ObservePassed : _need_observe(Config, heap[c]) /\ c \notin ObserveRecursed
  /\ \A c \in ObserveRecursed : ~_need_observe(Config, heap[c]) /\ c \notin ObservePassed
  /\ \A c \in ObservePassed : \A d \in ObservePassed : d # c => d \notin Tree(heap, c)
  /\ \A w \in Fresh(WrapperType) :
       /\ heap[w]._layer \in ObservePassed
       /\ \A v \in Fresh(WrapperType) : v # w => v \notin Tree(heap, w)
  /\ pc = "done" =>
       \A n \in Tree(heap, result) \ {result} :
         \/ n \in Fresh(WrapperType)
         \/ ~_need_observe(Config, heap[n])
         \/ \E w \in Fresh(WrapperType) : n \in Tree(heap, w)

C9_Witness ==
  /\ pc = "done"
  /\ \E w \in Fresh(WrapperType) :
       \E d \in Tree(heap, heap[w]._layer) \ {heap[w]._layer} :
         _need_observe(Config, heap[d])

\* C10: when a collaborator step of quantize fails, the call ends in that error:
\* no later step runs (the layers are as they were when the step failed), no
\* model is returned, and with inplace=False the caller's model is unchanged.
\* A call in which no collaborator failed ends in no error.
C10_ErrorPropagates ==
  IF raisedAt # NotRaised
  THEN /\ pc = "raised"
       /\ error = raisedAt.step
       /\ result = None
       /\ stack = <<>>
       /\ heap = raisedAt.heap
       /\ ~inplace => OriginalUntouched
  ELSE /\ error = "none"
       /\ pc # "raised"
       /\ result # None <=> pc = "done"

C10_Witness ==
  /\ pc = "raised"
  /\ error = "_get_observe_wrapper"
  /\ ~inplace
  /\ Fresh(QuantedType) # {}
  /\ heap # work

Constructed == {r \in Rewriters : qat[r] # NoRewriter}

\* What the two passes make of a tree under the decision tables of config,
\* computed on the tree as a value.
RECURSIVE ConvertedShape(_, _)
ConvertedShape(config, s) ==
  [type |-> s.type,
   children |->
     [k \in DOMAIN s.children |->
        IF s.children[k].type \notin config.quantifiable THEN s.children[k]
        ELSE IF s.children[k].type \notin config.qat_layer_mappings
             THEN ConvertedShape(config, s.children[k])
             ELSE [type |-> QuantedType, children |-> <<>>]]]

RECURSIVE ObservedShape(_, _)
ObservedShape(config, s) ==
  [type |-> s.type,
   children |->
     [k \in DOMAIN s.children |->
        IF s.children[k].type \in config.observe
        THEN [type |-> WrapperType, children |-> <<s.children[k]>>]
        ELSE ObservedShape(config, s.children[k])]]

QuantizedShape(config, s) == ObservedShape(config, ConvertedShape(config, s))

\* C6: rewriters built from one configuration object share it neither with the
\* caller nor with each other; whatever the caller does to its object afterwards,
\* each rewriter decides by the tables the configuration had when the rewriter
\* was built, and its quantize returns what those tables give.
C6_ConfigIsolation ==
  /\ \A r \in Constructed :
       /\ qat[r]._config # UserConfig
       /\ \A q \in Constructed : q # r => qat[q]._config # qat[r]._config
       /\ Decisions(cfgs[qat[r]._config]) = Decisions(owned[r])
  /\ pc = "done" =>
       Shape(heap, result) = QuantizedShape(owned[self], Shape(entry, model))

C6_Witness ==
  /\ pc = "done"
  /\ Constructed = Rewriters
  /\ Decisions(cfgs[UserConfig]) # Decisions(owned[self])
  /\ Decisions(owned[1]) # Decisions(owned[2])
  /\ QuantizedShape(cfgs[UserConfig], Shape(entry, model))
       # QuantizedShape(owned[self], Shape(entry, model))

====
